---- MODULE Spec2Model ----
(***************************************************************************)
(* A model of the pfam client library (src/pfam/__init__.py): the request  *)
(* envelope, the scalar and tree normalizers, the entity mappers and the   *)
(* query facade with its derived fetches.                                  *)
(*                                                                         *)
(* Text is a sequence of one-character strings.  A Python scalar (None, a  *)
(* str, a float) is a record [t, s, m, e]: t is "none", "str" or "float";  *)
(* a str keeps its characters in s; a finite float is m * 10^e with m not  *)
(* divisible by 10 (0.0 is m = 0, e = 0); inf and nan keep their name in   *)
(* s.                                                                      *)
(***************************************************************************)
EXTENDS Integers, Sequences, FiniteSets, TLC

VARIABLES pc, defaults, call, sent, opGets, response, steps, root, result

vars == <<pc, defaults, call, sent, opGets, response, steps, root, result>>

(***************************************************************************)
(* Bounds of the model.                                                    *)
(***************************************************************************)
MaxValLen == 3

MaxTextLen == 5

MaxTaxLen == 4

MaxMatches == 2

(***************************************************************************)
(* Python scalars.                                                         *)
(***************************************************************************)
None_ == [t |-> "none", s |-> <<>>, m |-> 0, e |-> 0]

Str(chars) == [t |-> "str", s |-> chars, m |-> 0, e |-> 0]

Float(mant, exp) == [t |-> "float", s |-> <<>>, m |-> mant, e |-> exp]

FloatSpecial(name) == [t |-> "float", s |-> <<name>>, m |-> 0, e |-> 0]

IsStr(v) == v.t = "str"

\* The characters str.strip() removes (the ASCII ones).
Whitespace == {" ", "\t", "\n", "\r", "\f"}

Digits == {"0", "1", "2", "3", "4", "5", "6", "7", "8", "9"}

DigitVal(c) ==
    CASE c = "0" -> 0 [] c = "1" -> 1 [] c = "2" -> 2 [] c = "3" -> 3
      [] c = "4" -> 4 [] c = "5" -> 5 [] c = "6" -> 6 [] c = "7" -> 7
      [] c = "8" -> 8 [] c = "9" -> 9

\* s[from..to], empty when from > to.
Slice(s, from, to) == SubSeq(s, from, to)

\* The first index of s holding a character of set cs, 0 if none.
FirstIn(s, cs) ==
    IF \E i \in 1..Len(s) : s[i] \in cs
    THEN CHOOSE i \in 1..Len(s) : s[i] \in cs /\ \A j \in 1..(i - 1) : s[j] \notin cs
    ELSE 0

\* As strip, but only leading whitespace is removed (lstrip in place of strip).
stripLeftOnly(s) ==
    IF \A i \in 1..Len(s) : s[i] \in Whitespace
    THEN <<>>
    ELSE LET lo == CHOOSE i \in 1..Len(s) :
                       s[i] \notin Whitespace /\ \A j \in 1..(i - 1) : s[j] \in Whitespace
         IN  Slice(s, lo, Len(s))

\* str.strip(): leading and trailing whitespace removed.
strip(s) ==
    IF \A i \in 1..Len(s) : s[i] \in Whitespace
    THEN <<>>
    ELSE LET lo == CHOOSE i \in 1..Len(s) :
                       s[i] \notin Whitespace /\ \A j \in 1..(i - 1) : s[j] \in Whitespace
             hi == CHOOSE i \in 1..Len(s) :
                       s[i] \notin Whitespace /\ \A j \in (i + 1)..Len(s) : s[j] \in Whitespace
         IN  Slice(s, lo, hi)

\* str.rstrip('.'): every trailing '.' removed.
rstripDot(s) ==
    IF \A i \in 1..Len(s) : s[i] = "."
    THEN <<>>
    ELSE LET hi == CHOOSE i \in 1..Len(s) :
                       s[i] # "." /\ \A j \in (i + 1)..Len(s) : s[j] = "."
         IN  Slice(s, 1, hi)

(***************************************************************************)
(* float(str): the decimal grammar Python accepts, on a stripped string.   *)
(***************************************************************************)
LowerCh(c) ==
    CASE c = "I" -> "i" [] c = "N" -> "n" [] c = "F" -> "f" [] c = "T" -> "t"
      [] c = "Y" -> "y" [] c = "A" -> "a" [] OTHER -> c

Lower(s) == [i \in 1..Len(s) |-> LowerCh(s[i])]

\* A digit group: digits, single underscores allowed between two digits.
IsDigitGroup(s) ==
    /\ Len(s) > 0
    /\ \A i \in 1..Len(s) : s[i] \in Digits \cup {"_"}
    /\ s[1] # "_"
    /\ s[Len(s)] # "_"
    /\ \A i \in 1..(Len(s) - 1) : ~(s[i] = "_" /\ s[i + 1] = "_")

RECURSIVE GroupValue(_)
\* The number a digit group writes (underscores skipped).
GroupValue(s) ==
    IF s = <<>> THEN 0
    ELSE IF s[Len(s)] = "_" THEN GroupValue(Slice(s, 1, Len(s) - 1))
    ELSE 10 * GroupValue(Slice(s, 1, Len(s) - 1)) + DigitVal(s[Len(s)])

GroupDigits(s) == Cardinality({i \in 1..Len(s) : s[i] # "_"})

Signs == {"+", "-"}

Unsigned(s) == IF Len(s) > 0 /\ s[1] \in Signs THEN Tail(s) ELSE s

MantissaOf(s) ==
    LET k == FirstIn(s, {"e", "E"}) IN IF k = 0 THEN s ELSE Slice(s, 1, k - 1)

ExponentOf(s) ==
    LET k == FirstIn(s, {"e", "E"}) IN IF k = 0 THEN <<>> ELSE Slice(s, k + 1, Len(s))

HasExponent(s) == FirstIn(s, {"e", "E"}) # 0

IntPartOf(mant) ==
    LET k == FirstIn(mant, {"."}) IN IF k = 0 THEN mant ELSE Slice(mant, 1, k - 1)

FracPartOf(mant) ==
    LET k == FirstIn(mant, {"."}) IN IF k = 0 THEN <<>> ELSE Slice(mant, k + 1, Len(mant))

IsMantissa(mant) ==
    /\ IntPartOf(mant) = <<>> \/ IsDigitGroup(IntPartOf(mant))
    /\ FracPartOf(mant) = <<>> \/ IsDigitGroup(FracPartOf(mant))
    /\ IntPartOf(mant) # <<>> \/ FracPartOf(mant) # <<>>

SpecialNames == {<<"i", "n", "f">>, <<"n", "a", "n">>,
                 <<"i", "n", "f", "i", "n", "i", "t", "y">>}

\* Whether float(s) succeeds (s already stripped).
ParsesAsFloat(s) ==
    LET u == Unsigned(s) IN
    \/ Lower(u) \in SpecialNames
    \/ /\ IsMantissa(MantissaOf(u))
       /\ HasExponent(u) => IsDigitGroup(Unsigned(ExponentOf(u)))

RECURSIVE Pow10(_)
Pow10(n) == IF n <= 0 THEN 1 ELSE 10 * Pow10(n - 1)

RECURSIVE Normalised(_, _)
\* m * 10^e with the trailing zeros of m moved into e.
Normalised(mant, exp) ==
    IF mant = 0 THEN Float(0, 0)
    ELSE IF mant % 10 = 0 THEN Normalised(mant \div 10, exp + 1)
    ELSE Float(mant, exp)

RECURSIVE NumDigits(_)
NumDigits(n) == IF n < 10 THEN 1 ELSE 1 + NumDigits(n \div 10)

\* float(s) for an s that ParsesAsFloat.  A double overflows to inf above about
\* 1.8e308 and underflows to 0.0 below about 5e-324.
FloatOf(s) ==
    LET u    == Unsigned(s)
        neg  == Len(s) > 0 /\ s[1] = "-"
        mant == MantissaOf(u)
        ip   == IntPartOf(mant)
        fp   == FracPartOf(mant)
        ex   == ExponentOf(u)
        exv  == IF ex = <<>> THEN 0
                ELSE IF ex[1] = "-" THEN 0 - GroupValue(Tail(ex))
                ELSE GroupValue(Unsigned(ex))
        mag  == GroupValue(ip) * Pow10(GroupDigits(fp)) + GroupValue(fp)
        val  == Normalised(IF neg THEN 0 - mag ELSE mag, exv - GroupDigits(fp))
        top  == NumDigits(mag) + exv - GroupDigits(fp)
    IN  IF Lower(u) = <<"n", "a", "n">> THEN FloatSpecial("nan")
        ELSE IF Lower(u) \in SpecialNames
             THEN FloatSpecial(IF neg THEN "-inf" ELSE "inf")
        ELSE IF mag # 0 /\ top > 309
             THEN FloatSpecial(IF neg THEN "-inf" ELSE "inf")
        ELSE IF mag # 0 /\ top < -323 THEN Float(0, 0)
        ELSE val

(***************************************************************************)
(* xml_process_value                                                       *)
(***************************************************************************)
xml_process_value(value) ==
    IF value.t = "none" THEN None_
    ELSE IF value.t # "str" THEN value
    ELSE LET stripped == strip(value.s) IN
         IF stripped = <<>> THEN None_
         ELSE IF ParsesAsFloat(stripped) THEN FloatOf(stripped)
         ELSE Str(stripped)

(***************************************************************************)
(* ElementTree elements: [tag, text, attrib, children].  text is None_ or  *)
(* a scalar; attrib maps attribute names to scalars.                       *)
(***************************************************************************)
Elem(tag, text, attrib, children) ==
    [tag |-> tag, text |-> text, attrib |-> attrib, children |-> children]

NoAttrib == <<>>

\* Element.get(name): the attribute, or None.
Get(el, name) == IF name \in DOMAIN el.attrib THEN el.attrib[name] ELSE None_

HasChild(el, tag) == \E i \in 1..Len(el.children) : el.children[i].tag = tag

\* Element.find(tag): the first child with that tag (callers test HasChild).
Find(el, tag) ==
    el.children[CHOOSE i \in 1..Len(el.children) :
                    /\ el.children[i].tag = tag
                    /\ \A j \in 1..(i - 1) : el.children[j].tag # tag]

RECURSIVE xml_process_tree(_)
\* Every element's text and every attribute value through xml_process_value.
xml_process_tree(element) ==
    [tag      |-> element.tag,
     text     |-> xml_process_value(element.text),
     attrib   |-> [name \in DOMAIN element.attrib |->
                      xml_process_value(element.attrib[name])],
     children |-> [i \in 1..Len(element.children) |->
                      xml_process_tree(element.children[i])]]

(***************************************************************************)
(* Outcomes of a call: a returned value or a raised exception.             *)
(***************************************************************************)
Return(v) == [exc |-> "", msg |-> None_, val |-> v]

Raise(exc, msg) == [exc |-> exc, msg |-> msg, val |-> None_]

Raised(o) == o.exc # ""

\* setattr(obj, name, value) on an object kept as its attribute dictionary.
SetAttr(obj, name, value) ==
    [n \in DOMAIN obj \cup {name} |-> IF n = name THEN value ELSE obj[n]]

RECURSIVE Fold(_, _, _)

(***************************************************************************)
(* The entity classes.                                                     *)
(***************************************************************************)
KindPfamA == <<"P", "f", "a", "m", "-", "A">>

KindClan == <<"C", "l", "a", "n">>

KindSequence == <<"s", "e", "q", "u", "e", "n", "c", "e">>

PfamEntry(type, id, accession, description) ==
    [class |-> "PfamEntry", id |-> id, accession |-> accession,
     description |-> description, type |-> type]

PfarmGOTerm(id, category, text) ==
    [class |-> "PfarmGOTerm", id |-> id, category |-> category, text |-> text]

CurationStep(self, el) ==
    IF el.tag = "num_seqs"
    THEN IF ~HasChild(el, "seed") \/ ~HasChild(el, "full")
         THEN Raise("AttributeError", None_)
         ELSE Return(SetAttr(SetAttr(self, "num_seqs_seed", Find(el, "seed").text),
                             "num_seqs_full", Find(el, "full").text))
    ELSE Return(SetAttr(self, el.tag, el.text))

PfamCurationDetails(element) ==
    Fold("PfamCurationDetails",
         Return([class |-> "PfamCurationDetails", status |-> None_,
                 seed_source |-> None_, num_archs |-> None_, num_species |-> None_,
                 num_structures |-> None_, percentage_identity |-> None_,
                 av_length |-> None_, av_coverage |-> None_, type |-> None_]),
         element.children)

PfamCutoff(sequence, domain) ==
    [class |-> "PfamCutoff", sequence |-> sequence, domain |-> domain]

CutoffStep(cutoffs, cutoff) ==
    IF ~HasChild(cutoff, "sequence") \/ ~HasChild(cutoff, "domain")
    THEN Raise("AttributeError", None_)
    ELSE Return(SetAttr(cutoffs, cutoff.tag,
                        PfamCutoff(Find(cutoff, "sequence").text,
                                   Find(cutoff, "domain").text)))

HmmStep(self, el) ==
    IF el.tag = "cutoffs"
    THEN LET c == Fold("cutoffs", Return(self.cutoffs), el.children) IN
         IF Raised(c) THEN c ELSE Return(SetAttr(self, "cutoffs", c.val))
    ELSE Return(SetAttr(self, el.tag, el.text))

PfamHmmDetails(element) ==
    Fold("PfamHmmDetails",
         Return([class |-> "PfamHmmDetails",
                 hmmer_version |-> Get(element, "hmmer_version"),
                 model_version |-> Get(element, "model_version"),
                 model_length |-> Get(element, "model_length"),
                 build_commands |-> None_, search_commands |-> None_,
                 cutoffs |-> <<>>]),
         element.children)

\* The GO terms of a <go_terms> element, category by category.
RECURSIVE GoTerms(_)
GoTerms(cats) ==
    IF cats = <<>> THEN <<>>
    ELSE [i \in 1..Len(Head(cats).children) |->
             PfarmGOTerm(Get(Head(cats).children[i], "go_id"),
                         Get(Head(cats), "name"),
                         Head(cats).children[i].text)]
         \o GoTerms(Tail(cats))

FamilyStep(self, el) ==
    IF el.tag = "curation_details"
    THEN LET c == PfamCurationDetails(el) IN
         IF Raised(c) THEN c ELSE Return(SetAttr(self, "curation_details", c.val))
    ELSE IF el.tag = "hmm_details"
    THEN LET h == PfamHmmDetails(el) IN
         IF Raised(h) THEN h ELSE Return(SetAttr(self, "hmm_details", h.val))
    ELSE IF el.tag = "clan_membership"
    THEN Return(SetAttr(self, "clan",
                        PfamEntry(Str(KindClan), Get(el, "clan_id"),
                                  Get(el, "clan_acc"), None_)))
    ELSE IF el.tag = "go_terms"
    THEN Return(SetAttr(self, "go_terms", GoTerms(el.children)))
    ELSE Return(SetAttr(self, el.tag, el.text))

\* The entity's own entry, built last from the node's attributes.
WithEntry(o, entry) ==
    IF Raised(o) THEN o
    ELSE Return(SetAttr(o.val, "entry",
                        PfamEntry(Get(entry, "entry_type"), Get(entry, "id"),
                                  Get(entry, "accession"), o.val.description)))

PfamFamily(release_version, release_date, entry) ==
    WithEntry(Fold("PfamFamily",
                   Return([class |-> "PfamFamily",
                           pfam_release_version |-> release_version,
                           pfam_release_date |-> release_date,
                           description |-> None_, comment |-> None_]),
                   entry.children),
              entry)

LocationStep(self, el) == Return(SetAttr(self, el.tag, el.text))

PfamLocation(element) ==
    Fold("PfamLocation",
         Return([class |-> "PfamLocation",
                 start |-> Get(element, "start"), end |-> Get(element, "end"),
                 ali_start |-> Get(element, "ali_start"),
                 ali_end |-> Get(element, "ali_end"),
                 hmm_start |-> Get(element, "hmm_start"),
                 hmm_end |-> Get(element, "hmm_end"),
                 bitscore |-> Get(element, "bitscore"),
                 evalue |-> Get(element, "evalue"),
                 evidence |-> Get(element, "evidence"),
                 significant |-> Get(element, "significant"),
                 hmm |-> None_, match_string |-> None_, pp |-> None_,
                 seq |-> None_, raw |-> None_]),
         element.children)

PfamMatch(element) ==
    [class |-> "PfamMatch",
     entry |-> PfamEntry(Get(element, "type"), Get(element, "id"),
                         Get(element, "accession"), None_),
     locations |-> [i \in 1..Len(element.children) |->
                       PfamLocation(element.children[i]).val]]

\* Whether sep starts at index i of s.
StartsAt(s, sep, i) ==
    /\ i + Len(sep) - 1 <= Len(s)
    /\ \A k \in 1..Len(sep) : s[i + k - 1] = sep[k]

RECURSIVE split(_, _)
\* str.split(sep): the pieces between the occurrences of sep, left to right.
split(s, sep) ==
    IF \E i \in 1..Len(s) : StartsAt(s, sep, i)
    THEN LET k == CHOOSE i \in 1..Len(s) :
                      StartsAt(s, sep, i) /\ \A j \in 1..(i - 1) : ~StartsAt(s, sep, j)
         IN  <<Slice(s, 1, k - 1)>> \o split(Slice(s, k + Len(sep), Len(s)), sep)
    ELSE <<s>>

StrList(pieces) == [i \in 1..Len(pieces) |-> Str(pieces[i])]

\* el.text.rstrip('.').split('; ') of a <taxonomy> element.
TaxonomyOf(text) ==
    IF ~IsStr(text) THEN Raise("AttributeError", None_)
    ELSE Return(StrList(split(rstripDot(text.s), <<";", " ">>)))

ProteinStep(self, el) ==
    IF el.tag = "taxonomy"
    THEN LET t == TaxonomyOf(el.text) IN
         IF Raised(t) THEN t
         ELSE Return(SetAttr(SetAttr(SetAttr(self, "taxonomy_id", Get(el, "tax_id")),
                                     "species_name", Get(el, "species_name")),
                             "taxonomy", t.val))
    ELSE IF el.tag = "sequence"
    THEN Return(SetAttr(SetAttr(self, "sequence_version", Get(el, "version")),
                        "sequence", el.text))
    ELSE IF el.tag = "matches"
    THEN Return(SetAttr(self, "matches",
                        self.matches \o [i \in 1..Len(el.children) |->
                                            PfamMatch(el.children[i])]))
    ELSE Return(SetAttr(self, el.tag, el.text))

PfamProtein(release_version, release_date, entry) ==
    WithEntry(Fold("PfamProtein",
                   Return([class |-> "PfamProtein",
                           pfam_release_version |-> release_version,
                           pfam_release_date |-> release_date,
                           db_name |-> Get(entry, "db"),
                           db_release_version |-> Get(entry, "db_release"),
                           description |-> None_, comment |-> None_,
                           taxonomy_id |-> None_, species_name |-> None_,
                           taxonomy |-> None_, sequence |-> None_,
                           matches |-> <<>>]),
                   entry.children),
              entry)

PfamClanMember(element) ==
    [class |-> "PfamClanMember",
     entry |-> PfamEntry(Str(KindPfamA), Get(element, "id"),
                         Get(element, "accession"), None_),
     num_occurrences |-> Get(element, "num_occurrences"),
     percentage_hits |-> Get(element, "percentage_hits")]

ClanStep(self, el) ==
    IF el.tag = "members"
    THEN Return(SetAttr(self, "families",
                        self.families \o [i \in 1..Len(el.children) |->
                                             PfamClanMember(el.children[i])]))
    ELSE Return(SetAttr(self, el.tag, el.text))

PfamClan(release_version, release_date, entry) ==
    WithEntry(Fold("PfamClan",
                   Return([class |-> "PfamClan",
                           pfam_release_version |-> release_version,
                           pfam_release_date |-> release_date,
                           description |-> None_, comment |-> None_,
                           families |-> <<>>]),
                   entry.children),
              entry)

\* The body of the for loop over the child elements, by the class that runs it.
StepOf(class, self, el) ==
    CASE class = "PfamCurationDetails" -> CurationStep(self, el)
      [] class = "cutoffs" -> CutoffStep(self, el)
      [] class = "PfamHmmDetails" -> HmmStep(self, el)
      [] class = "PfamFamily" -> FamilyStep(self, el)
      [] class = "PfamLocation" -> LocationStep(self, el)
      [] class = "PfamProtein" -> ProteinStep(self, el)
      [] class = "PfamClan" -> ClanStep(self, el)

\* A for loop over child elements: acc is the outcome so far, a raise ends it.
Fold(class, acc, seq) ==
    IF seq = <<>> \/ Raised(acc) THEN acc
    ELSE Fold(class, StepOf(class, acc.val, Head(seq)), Tail(seq))

(***************************************************************************)
(* datetime.strptime(value, '%Y-%m-%d')                                    *)
(***************************************************************************)
AllDigits(s) == \A i \in 1..Len(s) : s[i] \in Digits

IsLeap(y) == (y % 4 = 0 /\ y % 100 # 0) \/ y % 400 = 0

DaysIn(y, mo) ==
    IF mo = 2 THEN (IF IsLeap(y) THEN 29 ELSE 28)
    ELSE IF mo \in {4, 6, 9, 11} THEN 30 ELSE 31

\* %m and %d: one or two digits, no value 0.
IsDayOrMonth(s) == Len(s) \in {1, 2} /\ AllDigits(s) /\ GroupValue(s) > 0

\* %d also takes a space in place of the leading zero.
DayDigits(s) == IF Len(s) = 2 /\ s[1] = " " THEN Tail(s) ELSE s

strptime(value) ==
    IF ~IsStr(value) THEN Raise("TypeError", None_)
    ELSE LET parts == split(value.s, <<"-">>) IN
         IF /\ Len(parts) = 3
            /\ Len(parts[1]) = 4 /\ AllDigits(parts[1]) /\ GroupValue(parts[1]) > 0
            /\ IsDayOrMonth(parts[2]) /\ GroupValue(parts[2]) <= 12
            /\ IsDayOrMonth(DayDigits(parts[3]))
            /\ GroupValue(DayDigits(parts[3]))
                   <= DaysIn(GroupValue(parts[1]), GroupValue(parts[2]))
         THEN Return([t |-> "datetime", year |-> GroupValue(parts[1]),
                      month |-> GroupValue(parts[2]),
                      day |-> GroupValue(DayDigits(parts[3]))])
         ELSE Raise("ValueError", None_)

(***************************************************************************)
(* request: the envelope.  A params dictionary maps keys to values; the    *)
(* variable defaults is the dictionary object bound to the default of the  *)
(* params parameter, shared by every call that passes none.                *)
(***************************************************************************)
setdefault(d, key, value) == IF key \in DOMAIN d THEN d ELSE SetAttr(d, key, value)

\* The shared default dictionary after a call of request: setdefault writes
\* into it only when the caller passed no params.
NextDefaultsKeepsLast(hasParams, params) == params

NextDefaults(hasParams, params) == IF hasParams THEN defaults ELSE params

\* The dictionary request works on: the caller's, or the shared default.
BoundParams(hasParams, given) == IF hasParams THEN given ELSE defaults

BaseUrl == <<"https://pfam.xfam.org">>

\* A response body: an XML document (its root, and whether the root declares a
\* default namespace), or text that is not XML.
XmlBody(tree, xmlns) == [kind |-> "xml", xmlns |-> xmlns, tree |-> tree, text |-> <<>>]

TextBody(text) == [kind |-> "text", xmlns |-> FALSE, tree |-> <<>>, text |-> text]

\* re.sub(' xmlns="[^"]+"', '', text, count=1): the first declaration removed.
re_sub(body) == [body EXCEPT !.xmlns = FALSE]

\* As RequestReturn, with the tree normalized before the error node is looked for.
RequestReturnNormalizeFirst(params, resp) ==
    IF ~resp.ok
    THEN [steps |-> <<"raise_for_status">>, root |-> <<>>,
          outcome |-> Raise("HTTPError", None_)]
    ELSE IF params["output"] # "xml"
    THEN [steps |-> <<"raise_for_status">>, root |-> <<>>,
          outcome |-> Return(Str(resp.body.text))]
    ELSE LET xml == re_sub(resp.body) IN
         IF xml.kind # "xml"
         THEN [steps |-> <<"raise_for_status", "re.sub", "fromstring">>,
               root |-> <<>>, outcome |-> Raise("ParseError", None_)]
         ELSE IF xml.tree.tag = "error"
         THEN [steps |-> <<"raise_for_status", "re.sub", "fromstring",
                           "xml_process_tree", "error?">>,
               root |-> xml_process_tree(xml.tree),
               outcome |-> Raise("Exception", xml_process_tree(xml.tree).text)]
         ELSE [steps |-> <<"raise_for_status", "re.sub", "fromstring",
                           "xml_process_tree", "error?">>,
               root |-> xml_process_tree(xml.tree),
               outcome |-> Return(xml_process_tree(xml.tree))]

\* What request does with the response, in order: the steps it ran, the tree as
\* it left it, and its outcome.
RequestReturn(params, resp) ==
    IF ~resp.ok
    THEN [steps |-> <<"raise_for_status">>, root |-> <<>>,
          outcome |-> Raise("HTTPError", None_)]
    ELSE IF params["output"] # "xml"
    THEN [steps |-> <<"raise_for_status">>, root |-> <<>>,
          outcome |-> Return(Str(resp.body.text))]
    ELSE LET xml == re_sub(resp.body) IN
         IF xml.kind # "xml"
         THEN [steps |-> <<"raise_for_status", "re.sub", "fromstring">>,
               root |-> <<>>, outcome |-> Raise("ParseError", None_)]
         ELSE IF xml.tree.tag = "error"
         THEN [steps |-> <<"raise_for_status", "re.sub", "fromstring", "error?">>,
               root |-> xml.tree, outcome |-> Raise("Exception", xml.tree.text)]
         ELSE [steps |-> <<"raise_for_status", "re.sub", "fromstring", "error?",
                           "xml_process_tree">>,
               root |-> xml_process_tree(xml.tree),
               outcome |-> Return(xml_process_tree(xml.tree))]

(***************************************************************************)
(* The query facade: what each function does with what request returned.   *)
(***************************************************************************)
\* The class a root-entity function builds.
Build(fn, release_version, release_date, entry) ==
    CASE fn = "family" -> PfamFamily(release_version, release_date, entry)
      [] fn = "clan" -> PfamClan(release_version, release_date, entry)
      [] fn = "protein" -> PfamProtein(release_version, release_date, entry)

\* family, clan and protein: the release read off the root request returned,
\* the entity built from its first child.
RootEntity(fn, r) ==
    IF Raised(r) THEN r
    ELSE LET date == strptime(Get(r.val, "release_date")) IN
         IF Raised(date) THEN date
         ELSE IF r.val.children = <<>> THEN Raise("IndexError", None_)
         ELSE Build(fn, Get(r.val, "release"), date.val, r.val.children[1])

family(r) == RootEntity("family", r)

clan(r) == RootEntity("clan", r)

protein(r) == RootEntity("protein", r)

LineBreaks == {"\n", "\r", "\f"}

RECURSIVE splitlines(_)
\* str.splitlines(): the lines, without their line breaks; "\r\n" is one break.
splitlines(s) ==
    LET k == FirstIn(s, LineBreaks) IN
    IF s = <<>> THEN <<>>
    ELSE IF k = 0 THEN <<s>>
    ELSE LET skip == IF s[k] = "\r" /\ k < Len(s) /\ s[k + 1] = "\n" THEN 2 ELSE 1
         IN  <<Slice(s, 1, k - 1)>> \o splitlines(Slice(s, k + skip, Len(s)))

RECURSIVE EntryLinesSwapped(_, _)
\* As EntryLines, with the first field taken as the id and the second as the
\* accession.
EntryLinesSwapped(type, lines) ==
    IF lines = <<>> THEN <<>>
    ELSE LET fields == split(Head(lines), <<"\t">>) IN
         (IF Len(fields) = 3
          THEN <<PfamEntry(Str(type), Str(fields[1]), Str(fields[2]), Str(fields[3]))>>
          ELSE <<>>)
         \o EntryLinesSwapped(type, Tail(lines))

RECURSIVE EntryLines(_, _)
\* The loop of families and clans: an entry per line of exactly three fields.
EntryLines(type, lines) ==
    IF lines = <<>> THEN <<>>
    ELSE LET fields == split(Head(lines), <<"\t">>) IN
         (IF Len(fields) = 3
          THEN <<PfamEntry(Str(type), Str(fields[2]), Str(fields[1]), Str(fields[3]))>>
          ELSE <<>>)
         \o EntryLines(type, Tail(lines))

families(r) ==
    IF Raised(r) THEN r ELSE Return(EntryLines(KindPfamA, splitlines(r.val.s)))

clans(r) ==
    IF Raised(r) THEN r ELSE Return(EntryLines(KindClan, splitlines(r.val.s)))

proteins(r) ==
    IF Raised(r) THEN r
    ELSE Return([i \in 1..Len(splitlines(r.val.s)) |->
                    Str(split(splitlines(r.val.s)[i], <<"/">>)[1])])

\* The facade function fn applied to request's outcome.
Facade(fn, r) ==
    CASE fn = "family" -> family(r)
      [] fn = "clan" -> clan(r)
      [] fn = "protein" -> protein(r)
      [] fn = "families" -> families(r)
      [] fn = "clans" -> clans(r)
      [] fn = "proteins" -> proteins(r)
      [] OTHER -> r

\* The path a facade function asks for.
PathOf(fn, id) ==
    CASE fn = "family" -> <<"/family/">> \o id
      [] fn = "clan" -> <<"/clan/">> \o id
      [] fn = "protein" -> <<"/protein/">> \o id
      [] fn = "families" -> <<"/families">>
      [] fn = "clans" -> <<"/clans">>
      [] fn = "proteins" -> <<"/family/">> \o id \o <<"/alignment/full/format">>

\* As FetchTarget, with the branch for 'Clan' calling family.
FetchTargetClanAsFamily(entry) ==
    IF entry.type = Str(KindPfamA) THEN "family"
    ELSE IF entry.type = Str(KindClan) THEN "family"
    ELSE IF entry.type = Str(KindSequence) THEN "protein"
    ELSE ""

\* PfamEntry.fetch: the facade function the entry's type selects, "" if none.
FetchTarget(entry) ==
    IF entry.type = Str(KindPfamA) THEN "family"
    ELSE IF entry.type = Str(KindClan) THEN "clan"
    ELSE IF entry.type = Str(KindSequence) THEN "protein"
    ELSE ""

(***************************************************************************)
(* The inputs: what callers pass and what the server answers.              *)
(***************************************************************************)
\* All texts over an alphabet, up to a length.
Texts(alphabet, maxLen) == UNION {[1..n -> alphabet] : n \in 0..maxLen}

\* An element's text is None when it is empty; an attribute may be "".
TextValues(texts) == {IF s = <<>> THEN None_ ELSE Str(s) : s \in texts}

ValTexts == Texts({" ", "1", ".", "a"}, MaxValLen)

TaxTexts == Texts({"a", ".", ";", " "}, MaxTaxLen) \cup {<<"1">>, <<"2", ".", "5">>}

TextBodies == Texts({"a", "/", "\t", "\n"}, MaxTextLen)

Release331 == <<"3", "3", ".", "1">>

Date20220201 == <<"2", "0", "2", "2", "-", "0", "2", "-", "0", "1">>

AccPF1 == <<"P", "F", "1">>

Leaf(tag, text) == Elem(tag, text, NoAttrib, <<>>)

EntryAttrib(type) ==
    [entry_type |-> Str(type), id |-> Str(<<"F", "1">>), accession |-> Str(AccPF1)]

RootDoc(release, date, kids) ==
    Elem("pfam", None_, [release |-> release, release_date |-> date], kids)

CurationDoc ==
    Elem("curation_details", None_, NoAttrib,
         <<Leaf("status", Str(<<"o", "k">>)),
           Elem("num_seqs", None_, NoAttrib,
                <<Leaf("seed", Str(<<"1", "0">>)), Leaf("full", Str(<<"2", "0">>))>>)>>)

\* A family document: one raw text v as the comment, one raw attribute a as the
\* release.
FamilyDoc(v, a, date) ==
    RootDoc(a, date,
            <<Elem("entry", None_, EntryAttrib(KindPfamA),
                   <<Leaf("description", Str(<<"d">>)), Leaf("comment", v),
                     CurationDoc>>)>>)

RichFamilyDoc ==
    RootDoc(Str(Release331), Str(Date20220201),
            <<Elem("entry", None_, EntryAttrib(KindPfamA),
                   <<Elem("clan_membership", None_,
                          [clan_id |-> Str(<<"C", "1">>),
                           clan_acc |-> Str(<<"C", "L", "1">>)], <<>>),
                     Elem("hmm_details", None_, [hmmer_version |-> Str(<<"3">>)],
                          <<Leaf("build_commands", Str(<<"b">>)),
                            Elem("cutoffs", None_, NoAttrib,
                                 <<Elem("gathering", None_, NoAttrib,
                                        <<Leaf("sequence", Str(<<"2", "5">>)),
                                          Leaf("domain", Str(<<"2", "4">>))>>)>>)>>),
                     Elem("go_terms", None_, NoAttrib,
                          <<Elem("category", None_, [name |-> Str(<<"f">>)],
                                 <<Elem("term", Str(<<"g">>),
                                        [go_id |-> Str(<<"G", "O">>)], <<>>)>>)>>)>>)>>)

ClanDoc(n) ==
    RootDoc(Str(Release331), Str(Date20220201),
            <<Elem("entry", None_, EntryAttrib(KindClan),
                   <<Leaf("description", Str(<<"d">>)),
                     Elem("members", None_, NoAttrib,
                          [i \in 1..n |->
                              Elem("pfama", None_,
                                   [id |-> Str(<<"F", "2">>),
                                    accession |-> Str(<<"P", "F", "2">>),
                                    num_occurrences |-> Str(<<"4">>)], <<>>)])>>)>>)

ProteinDoc(kids) ==
    RootDoc(Str(Release331), Str(Date20220201),
            <<Elem("entry", None_, EntryAttrib(KindSequence), kids)>>)

TaxonomyDoc(text) ==
    ProteinDoc(<<Elem("taxonomy", text,
                      [tax_id |-> Str(<<"9">>), species_name |-> Str(<<"s">>)], <<>>)>>)

MatchElem(attrib) ==
    Elem("match", None_, attrib,
         <<Elem("location", None_, [start |-> Str(<<"1">>)], <<Leaf("hmm", Str(<<"h">>))>>)>>)

\* The <match> elements: each type tag, a numeric accession, a missing type.
MatchElems ==
    {MatchElem([type |-> Str(k), id |-> Str(<<"F", "1">>), accession |-> Str(AccPF1)])
       : k \in {KindPfamA, KindClan, KindSequence, <<"P", "f", "a", "m", "-", "B">>}}
    \cup {MatchElem([type |-> Str(KindPfamA), id |-> Str(<<"F", "1">>),
                     accession |-> Str(<<"7">>)]),
          MatchElem([id |-> Str(<<"F", "1">>), accession |-> Str(AccPF1)])}

MatchesDoc(ms) == ProteinDoc(<<Elem("matches", None_, NoAttrib, ms)>>)

Docs ==
    {Leaf("error", v) : v \in TextValues(ValTexts)}
    \cup {FamilyDoc(IF s = <<>> THEN None_ ELSE Str(s), Str(s), Str(Date20220201))
            : s \in ValTexts \cup {Release331}}
    \cup {FamilyDoc(None_, Str(Release331), d)
            : d \in {Str(<<"2", "0", "2", "2">>), Str(<<"2", "0", "2", "2", "-", "2", "-", "3", "0">>)}}
    \cup {Elem("pfam", None_, NoAttrib, <<>>), RootDoc(None_, Str(Date20220201), <<>>),
          RichFamilyDoc, ClanDoc(0), ClanDoc(2)}
    \cup {TaxonomyDoc(v) : v \in TextValues(TaxTexts)}
    \cup {MatchesDoc(ms) : ms \in UNION {[1..n -> MatchElems] : n \in 0..MaxMatches}}

XmlBodies ==
    {XmlBody(d, TRUE) : d \in Docs}
    \cup {XmlBody(ClanDoc(0), FALSE), TextBody(<<"<">>)}

Ids == {Str(AccPF1)}

RequestPaths == {Str(<<"/families">>)}

CallerParams == {[output |-> "text"], [format |-> "pfam"]}

\* The accessions of the entries the caller fetches.
FetchKeys ==
    {Str(AccPF1), Str(<<"a">>), Str(<<"C", "L", "1">>), Str(<<"P", "F", "2">>),
     Float(7, 0), None_}

ProteinsParams ==
    [format |-> "pfam", alnType |-> "full", order |-> "a", case |-> "l",
     gaps |-> "none", download |-> "0", output |-> "text"]

(***************************************************************************)
(* The state machine.  An operation runs from its call to the GET it       *)
(* issues (pc = "waiting"), and from the response to its return; an        *)
(* operation that issues no GET returns at once.                           *)
(***************************************************************************)
NoRequest == [url |-> <<>>, params |-> <<>>]

NoResponse == [ok |-> FALSE, body |-> TextBody(<<>>)]

Pending == [exc |-> "pending", msg |-> None_, val |-> None_]

CallRecord(stack, fn, kind, id, hasParams, given) ==
    [stack |-> stack, fn |-> fn, kind |-> kind, id |-> id,
     hasParams |-> hasParams, params |-> given]

\* The operation returns (or raises) without a request.
Finish(stack, kind, id, outcome) ==
    /\ pc' = "idle"
    /\ call' = CallRecord(stack, "", kind, id, FALSE, <<>>)
    /\ sent' = NoRequest
    /\ opGets' = 0
    /\ response' = NoResponse
    /\ steps' = <<>>
    /\ root' = <<>>
    /\ result' = outcome
    /\ UNCHANGED defaults

\* As GetsPerRequest, with the GET issued a second time.
GetsWithRetry == 1 + 1

\* The number of GETs one call of request issues.
GetsPerRequest == 1

\* The facade function fn is called with id; it calls request, which issues
\* the GET.  A path is built by str + id, which needs a str.
Invoke(stack, fn, kind, id, hasParams, given) ==
    IF ~IsStr(id)
    THEN Finish(stack \o <<fn>>, kind, id, Raise("TypeError", None_))
    ELSE LET params == setdefault(BoundParams(hasParams, given), "output", "xml") IN
         /\ pc' = "waiting"
         /\ defaults' = NextDefaults(hasParams, params)
         /\ call' = CallRecord(stack \o <<fn, "request">>, fn, kind, id, hasParams, given)
         /\ sent' = [url |-> BaseUrl \o (IF fn = "request" THEN id.s ELSE PathOf(fn, id.s)),
                     params |-> params]
         /\ opGets' = GetsPerRequest
         /\ response' = NoResponse
         /\ steps' = <<"setdefault", "requests.get">>
         /\ root' = <<>>
         /\ result' = Pending

Held == pc = "idle" /\ result.exc = "" /\ call.fn \in {"family", "clan", "protein"}

\* The entries the caller can reach from what the last operation returned.
EntriesOf ==
    IF pc # "idle" \/ result.exc # "" THEN {}
    ELSE IF call.fn \in {"families", "clans"}
    THEN {result.val[i] : i \in 1..Len(result.val)}
    ELSE IF call.fn = "family"
    THEN {result.val.entry}
         \cup (IF "clan" \in DOMAIN result.val THEN {result.val.clan} ELSE {})
    ELSE IF call.fn = "clan"
    THEN {result.val.entry}
         \cup {result.val.families[i].entry : i \in 1..Len(result.val.families)}
    ELSE IF call.fn = "protein"
    THEN {result.val.entry}
         \cup {result.val.matches[i].entry : i \in 1..Len(result.val.matches)}
    ELSE {}

\* PfamEntry.fetch on entry, reached through the methods of stack.
Fetch(stack, entry) ==
    IF FetchTarget(entry) = ""
    THEN Finish(stack, entry.type, entry.accession, Return(None_))
    ELSE Invoke(stack, FetchTarget(entry), entry.type, entry.accession, FALSE, <<>>)

\* As DelegateOf, with the last match in place of the first.
DelegateOfLast(matches) == matches[Len(matches)]

\* The match PfamProtein.fetch_family delegates to.
DelegateOf(matches) == matches[1]

CallFamily == pc = "idle" /\ \E id \in Ids : Invoke(<<>>, "family", None_, id, FALSE, <<>>)

CallClan == pc = "idle" /\ \E id \in Ids : Invoke(<<>>, "clan", None_, id, FALSE, <<>>)

CallProtein == pc = "idle" /\ \E id \in Ids : Invoke(<<>>, "protein", None_, id, FALSE, <<>>)

CallFamilies ==
    pc = "idle" /\ Invoke(<<>>, "families", None_, Str(<<>>), TRUE, [output |-> "text"])

CallClans ==
    pc = "idle" /\ Invoke(<<>>, "clans", None_, Str(<<>>), TRUE, [output |-> "text"])

CallProteins ==
    pc = "idle" /\ \E id \in Ids : Invoke(<<>>, "proteins", None_, id, TRUE, ProteinsParams)

CallRequest ==
    /\ pc = "idle"
    /\ \E path \in RequestPaths :
          \/ Invoke(<<>>, "request", None_, path, FALSE, <<>>)
          \/ \E given \in CallerParams : Invoke(<<>>, "request", None_, path, TRUE, given)

EntryFetch ==
    \E entry \in EntriesOf :
       entry.accession \in FetchKeys /\ Fetch(<<"Entry.fetch">>, entry)

MatchFetchFamily ==
    /\ Held /\ call.fn = "protein"
    /\ \E i \in 1..Len(result.val.matches) :
          Fetch(<<"Match.fetch_family", "Entry.fetch">>, result.val.matches[i].entry)

ProteinFetchFamily ==
    /\ Held /\ call.fn = "protein"
    /\ IF Len(result.val.matches) > 0
       THEN Fetch(<<"Protein.fetch_family", "Match.fetch_family", "Entry.fetch">>,
                  DelegateOf(result.val.matches).entry)
       ELSE Finish(<<"Protein.fetch_family">>, None_, None_, Return(None_))

\* The response arrives: request goes on, then the facade function.
Complete(resp) ==
    LET rr == RequestReturn(sent.params, resp) IN
    /\ pc' = "idle"
    /\ response' = resp
    /\ steps' = steps \o rr.steps
    /\ root' = rr.root
    /\ result' = Facade(call.fn, rr.outcome)
    /\ UNCHANGED <<defaults, call, sent, opGets>>

\* requests.get itself raises (no connection, timeout): request goes no further.
GetRaises ==
    /\ pc = "waiting"
    /\ pc' = "idle"
    /\ result' = Raise("RequestException", None_)
    /\ UNCHANGED <<defaults, call, sent, opGets, response, steps, root>>

\* The server answers with a status that raise_for_status rejects.
HttpFailure == pc = "waiting" /\ Complete([ok |-> FALSE, body |-> TextBody(<<>>)])

XmlReply ==
    /\ pc = "waiting" /\ sent.params["output"] = "xml"
    /\ \E body \in XmlBodies : Complete([ok |-> TRUE, body |-> body])

TextReply ==
    /\ pc = "waiting" /\ sent.params["output"] # "xml"
    /\ \E text \in TextBodies : Complete([ok |-> TRUE, body |-> TextBody(text)])

Init ==
    /\ pc = "idle"
    /\ defaults = <<>>
    /\ call = CallRecord(<<>>, "", None_, None_, FALSE, <<>>)
    /\ sent = NoRequest
    /\ opGets = 0
    /\ response = NoResponse
    /\ steps = <<>>
    /\ root = <<>>
    /\ result = Pending

Next ==
    \/ CallFamily
    \/ CallClan
    \/ CallProtein
    \/ CallFamilies
    \/ CallClans
    \/ CallProteins
    \/ CallRequest
    \/ EntryFetch
    \/ MatchFetchFamily
    \/ ProteinFetchFamily
    \/ GetRaises
    \/ HttpFailure
    \/ XmlReply
    \/ TextReply

Spec == Init /\ [][Next]_vars

(***************************************************************************)
(* The claims.                                                             *)
(***************************************************************************)
Range(seq) == {seq[i] : i \in 1..Len(seq)}

\* The last operation got a successful response holding an XML document.
GotXml == pc = "idle" /\ response.ok /\ response.body.kind = "xml"

RootEntityFns == {"family", "clan", "protein"}

\* C1: when family, clan or protein returns an entity built from a response
\* whose root carries release="33.1" and release_date="2022-02-01", the
\* entity's pfam_release_version is the string "33.1", the text the server sent.
C1_ReleaseKeptAsText ==
    (/\ GotXml
     /\ call.fn \in RootEntityFns
     /\ Get(response.body.tree, "release") = Str(Release331)
     /\ Get(response.body.tree, "release_date") = Str(Date20220201)
     /\ result.exc = "")
    => result.val.pfam_release_version = Str(Release331)

\* C2: when an output=xml request gets a successful response whose root tag is
\* error, the call fails with an exception whose message is the root's text as
\* sent, the tree is left as parsed and xml_process_tree has not run; whenever
\* xml_process_tree runs, the error check ran before it.
C2_ErrorCheckedBeforeNormalizing ==
    /\ (GotXml /\ response.body.tree.tag = "error")
       => /\ result.exc = "Exception"
          /\ result.msg = response.body.tree.text
          /\ root = response.body.tree
          /\ "xml_process_tree" \notin Range(steps)
    /\ \A i \in 1..Len(steps) :
          steps[i] = "xml_process_tree" => \E j \in 1..(i - 1) : steps[j] = "error?"

\* An error document whose text the normalizer would have changed was answered
\* to family, which raised with the text as sent.
C2_Witness ==
    /\ GotXml
    /\ call.fn = "family"
    /\ response.body.tree.tag = "error"
    /\ response.body.tree.text = Str(<<" ", "1">>)
    /\ result.exc = "Exception"
    /\ result.msg = Str(<<" ", "1">>)

\* The step is a call of Protein.fetch_family.
CallsProteinFetchFamily ==
    pc = "idle" /\ call'.stack # <<>> /\ Head(call'.stack) = "Protein.fetch_family"

\* C3: Protein.fetch_family on a protein without matches returns None, raises
\* nothing and issues no request; on a protein with matches it goes through the
\* first match's fetch_family, that is the fetch of the first match's entry.
C3_ProteinFetchFamily ==
    [][CallsProteinFetchFamily =>
          /\ Held /\ call.fn = "protein"
          /\ IF Len(result.val.matches) = 0
             THEN /\ pc' = "idle"
                  /\ call'.stack = <<"Protein.fetch_family">>
                  /\ opGets' = 0
                  /\ sent' = NoRequest
                  /\ result'.exc = ""
                  /\ result'.val = None_
             ELSE /\ SubSeq(call'.stack, 1, 3)
                        = <<"Protein.fetch_family", "Match.fetch_family", "Entry.fetch">>
                  /\ call'.kind = result.val.matches[1].entry.type
                  /\ call'.id = result.val.matches[1].entry.accession]_vars

\* Protein.fetch_family returned None at once: the protein had no matches.
C3_Witness ==
    /\ pc = "idle"
    /\ call.stack = <<"Protein.fetch_family">>
    /\ opGets = 0
    /\ result.exc = ""
    /\ result.val = None_

TopLevelOps == {"family", "clan", "protein", "families", "clans", "proteins"}

\* The operation in progress or last completed is a derived fetch that reached
\* an entry: Entry.fetch, Match.fetch_family, or Protein.fetch_family on a
\* protein with matches.
DerivedFetch ==
    /\ call.stack # <<>>
    /\ \/ Head(call.stack) \in {"Entry.fetch", "Match.fetch_family"}
       \/ Head(call.stack) = "Protein.fetch_family" /\ Len(call.stack) > 1

FetchableKinds == {Str(KindPfamA), Str(KindClan), Str(KindSequence)}

\* C4 as stated: a top-level operation issues at most one GET, and a derived
\* fetch issues exactly one GET whatever kind tag its entry carries.
C4_OneGetPerDerivedFetch ==
    /\ (call.stack # <<>> /\ Head(call.stack) \in TopLevelOps) => opGets <= 1
    /\ DerivedFetch => opGets = 1

\* C4 amended: a top-level operation issues at most one GET; a derived fetch
\* issues exactly one GET when its entry's kind tag is Pfam-A, Clan or sequence
\* and the accession is a string, and none otherwise.
C4_GetsPerOperation ==
    /\ (call.stack # <<>> /\ Head(call.stack) \in TopLevelOps) => opGets <= 1
    /\ DerivedFetch
       => opGets = IF call.kind \in FetchableKinds /\ IsStr(call.id) THEN 1 ELSE 0

\* Match.fetch_family on a match of type Pfam-B returned without a GET.
C4_Witness ==
    /\ pc = "idle"
    /\ call.stack = <<"Match.fetch_family", "Entry.fetch">>
    /\ call.kind = Str(<<"P", "f", "a", "m", "-", "B">>)
    /\ opGets = 0

\* The params the caller of request passed, {} when none.
GivenParams == IF call.hasParams THEN call.params ELSE <<>>

\* C5: every request is issued with the params its caller passed plus
\* output=xml when the caller set no output, whatever calls came before; a call
\* whose caller set no output is issued with output=xml and its successful
\* response is parsed as XML.
C5_OutputDefaultsToXml ==
    sent # NoRequest
    => /\ sent.params = [k \in DOMAIN GivenParams \cup {"output"} |->
                            IF k \in DOMAIN GivenParams THEN GivenParams[k] ELSE "xml"]
       /\ sent.url = BaseUrl \o (IF call.fn = "request" THEN call.id.s
                                 ELSE PathOf(call.fn, call.id.s))
       /\ "output" \notin DOMAIN GivenParams
          => /\ sent.params["output"] = "xml"
             /\ (pc = "idle" /\ response.ok) => "fromstring" \in Range(steps)

\* An entry listed by the text operation families is fetched: the request
\* that follows the text request is issued with output=xml.
C5_Witness ==
    /\ pc = "waiting"
    /\ call.stack = <<"Entry.fetch", "family", "request">>
    /\ call.id = Str(<<"a">>)
    /\ ~call.hasParams
    /\ sent.params = [output |-> "xml"]

\* The part of a line before its first '/'.
BeforeSlash(line) ==
    IF FirstIn(line, {"/"}) = 0 THEN line ELSE Slice(line, 1, FirstIn(line, {"/"}) - 1)

IsNonEmpty(line) == line # <<>>

\* C6: proteins returns, in line order, one name per non-empty line of the
\* body, the part of the line before its first '/'; empty lines give no element.
C6_NamesOfNonEmptyLines ==
    (pc = "idle" /\ call.fn = "proteins" /\ result.exc = "")
    => LET lines == SelectSeq(splitlines(response.body.text), IsNonEmpty) IN
       result.val = [i \in 1..Len(lines) |-> Str(BeforeSlash(lines[i]))]

\* s with one trailing '.' removed, if it ends with one.
StripOneDot(s) ==
    IF Len(s) > 0 /\ s[Len(s)] = "." THEN Slice(s, 1, Len(s) - 1) ELSE s

\* The entity node of the normalized tree has a <taxonomy> child.
HasTaxonomy ==
    /\ GotXml
    /\ "xml_process_tree" \in Range(steps)
    /\ Len(root.children) > 0
    /\ HasChild(root.children[1], "taxonomy")

\* C7: for a protein response with a taxonomy child, whatever text the tree
\* normalizer left on it, the protein's taxonomy is that text with exactly one
\* trailing '.' removed and then split on "; ".
C7_TaxonomyLineage ==
    (HasTaxonomy /\ call.fn = "protein")
    => /\ result.exc = ""
       /\ IsStr(Find(root.children[1], "taxonomy").text)
       /\ result.val.taxonomy
             = StrList(split(StripOneDot(Find(root.children[1], "taxonomy").text.s),
                             <<";", " ">>))

NumTabs(line) == Cardinality({i \in 1..Len(line) : line[i] = "\t"})

HasTwoTabs(line) == NumTabs(line) = 2

\* C8: families and clans return, in line order, one entry per line of the body
\* that has exactly three tab-separated fields: accession, id, description, kept
\* as the text of the line, with type Pfam-A for families and Clan for clans;
\* every other line is skipped and nothing is raised.
C8_EntriesOfThreeFieldLines ==
    (pc = "idle" /\ call.fn \in {"families", "clans"} /\ response.ok)
    => LET lines == SelectSeq(splitlines(response.body.text), HasTwoTabs) IN
       /\ result.exc = ""
       /\ Len(result.val) = Len(lines)
       /\ \A i \in 1..Len(lines) :
             /\ result.val[i].type
                   = Str(IF call.fn = "families" THEN KindPfamA ELSE KindClan)
             /\ IsStr(result.val[i].accession)
             /\ IsStr(result.val[i].id)
             /\ IsStr(result.val[i].description)
             /\ NumTabs(result.val[i].accession.s) = 0
             /\ NumTabs(result.val[i].id.s) = 0
             /\ result.val[i].accession.s \o <<"\t">> \o result.val[i].id.s
                   \o <<"\t">> \o result.val[i].description.s = lines[i]

\* families got a body of a two-field line and a three-field line and returned
\* the one entry of the second.
C8_Witness ==
    /\ pc = "idle" /\ call.fn = "families" /\ response.ok
    /\ response.body.text = <<"\t", "\n", "a", "\t", "\t">>
    /\ result.exc = ""
    /\ Len(result.val) = 1
    /\ result.val[1].accession = Str(<<"a">>)
    /\ result.val[1].id = Str(<<>>)

RECURSIVE ValuesOf(_)
\* Every text and attribute value of a tree.
ValuesOf(el) ==
    {el.text} \cup {el.attrib[name] : name \in DOMAIN el.attrib}
    \cup UNION {ValuesOf(el.children[i]) : i \in 1..Len(el.children)}

\* None, a float, or a non-empty trimmed string that float() rejects.
IsNormalized(v) ==
    \/ v.t \in {"none", "float"}
    \/ /\ v.t = "str"
       /\ v.s # <<>>
       /\ v.s[1] \notin Whitespace
       /\ v.s[Len(v.s)] \notin Whitespace
       /\ ~ParsesAsFloat(v.s)

\* C9: a tree that xml_process_tree has processed is unchanged by a second
\* pass, and each of its text and attribute values is None, a float, or a
\* non-empty trimmed string that does not parse as a float.
C9_NormalizeIdempotent ==
    (GotXml /\ "xml_process_tree" \in Range(steps))
    => /\ xml_process_tree(root) = root
       /\ \A v \in ValuesOf(root) : IsNormalized(v)

\* A document whose comment is " a " and whose release is " a " was normalized:
\* the tree differs from the one parsed.
C9_Witness ==
    /\ GotXml
    /\ "xml_process_tree" \in Range(steps)
    /\ Get(response.body.tree, "release") = Str(<<" ", "a", " ">>)
    /\ Get(root, "release") = Str(<<"a">>)
    /\ root # response.body.tree

\* The step is a call of Entry.fetch.
CallsEntryFetch ==
    pc = "idle" /\ call'.stack # <<>> /\ Head(call'.stack) = "Entry.fetch"

\* Entry.fetch asks the facade function fn for the path prefix + accession.
Requests(entry, prefix, fn) ==
    IF IsStr(entry.accession)
    THEN /\ pc' = "waiting"
         /\ call'.fn = fn
         /\ opGets' = 1
         /\ sent'.url = BaseUrl \o <<prefix>> \o entry.accession.s
    ELSE /\ pc' = "idle"
         /\ opGets' = 0
         /\ result'.exc = "TypeError"

\* The class of what Entry.fetch returned, by the kind tag it dispatched on.
ClassOfKind(kind) ==
    IF kind = Str(KindPfamA) THEN "PfamFamily"
    ELSE IF kind = Str(KindClan) THEN "PfamClan"
    ELSE "PfamProtein"

====
